---- MODULE Spec2Model ----
(***************************************************************************)
(* Model of image_generator.py: NovaCanvasImageGenerator and main().       *)
(*                                                                         *)
(* The remote endpoint (bedrock_runtime.invoke_model) and the filesystem   *)
(* are the environment: every remote call draws a response from Responses  *)
(* and every attempt to save draws a filesystem fault from Faults.         *)
(* Text is a sequence of one-character strings wherever the code looks at  *)
(* its characters (str.strip, base64.b64decode); bytes are sequences of    *)
(* integers 0..255.  Console output is not modelled beyond the tags kept   *)
(* in `out`.                                                               *)
(***************************************************************************)
EXTENDS Integers, Sequences, FiniteSets, TLC

\* Bounds of the model.  The code's prompts table has ten entries; a batch
\* here runs over its first numJobs entries, 1 <= numJobs <= MaxJobs.
MaxJobs == 3
\* Longest prefix of the payload a failing f.write may leave behind.
MaxCut == 1

\* Program constants.
DefaultWidth == 1024
DefaultHeight == 1024
\* cfg_scale=8.0
DefaultCfgScale == 8
NumberOfImages == 1
BatchSeed == 42
TestSeed == 123

output_dir == "images"

\* Python's None, and the truth test of `if result:`.
None == "<None>"
Truthy(v) == v # None /\ v # ""

(***************************************************************************)
(* The prompts table of generate_workshop_images.                          *)
(***************************************************************************)
AllPrompts ==
  << [filename |-> "01_basic_white_tshirt",
      prompt |-> "A clean white cotton t-shirt on a plain white background, front view, no wrinkles, studio lighting, product photography style, minimalist, high resolution",
      description |-> "Basic solid color t-shirt"],
     [filename |-> "02_striped_longsleeve",
      prompt |-> "A navy blue and white horizontal striped long-sleeve shirt, crew neck, regular fit, laid flat on white background, professional product photo, even lighting",
      description |-> "Striped long-sleeve shirt"],
     [filename |-> "03_checkered_buttonup",
      prompt |-> "A red and black checkered flannel button-up shirt, classic collar, long sleeves, regular fit, hanging on white background, studio photography",
      description |-> "Checkered button-up shirt"],
     [filename |-> "04_oversized_hoodie",
      prompt |-> "An oversized gray hoodie sweatshirt with hood up, loose fit, kangaroo pocket, long sleeves, on plain background, casual streetwear style",
      description |-> "Oversized hoodie"],
     [filename |-> "05_floral_blouse",
      prompt |-> "A light pink blouse with small white floral pattern, V-neck, short sleeves, fitted silhouette, on white background, feminine style, soft lighting",
      description |-> "Floral print blouse"],
     [filename |-> "06_vintage_band_tshirt",
      prompt |-> "A black vintage-style band t-shirt with distressed graphic print, crew neck, short sleeves, slightly faded, relaxed fit, on neutral background",
      description |-> "Vintage band t-shirt"],
     [filename |-> "07_formal_dress_shirt",
      prompt |-> "A crisp white formal dress shirt, French cuffs, spread collar, long sleeves, slim fit, pressed and neat, professional product photography",
      description |-> "Formal dress shirt"],
     [filename |-> "08_crop_top",
      prompt |-> "A bright yellow crop top, sleeveless, scoop neckline, fitted style, modern casual wear, on clean white background, good lighting",
      description |-> "Crop top"],
     [filename |-> "09_turtleneck_sweater",
      prompt |-> "A burgundy turtleneck sweater, long sleeves, fitted silhouette, ribbed texture, fall/winter style, on neutral background, cozy aesthetic",
      description |-> "Turtleneck sweater"],
     [filename |-> "10_tiedye_tshirt",
      prompt |-> "A tie-dye t-shirt with rainbow spiral pattern, crew neck, short sleeves, regular fit, vibrant colors, casual hippie style, bright lighting",
      description |-> "Tie-dye t-shirt"] >>

test_prompt == "A simple red t-shirt on white background, product photography"
test_filename == "test_shirt"

(***************************************************************************)
(* str.strip(): leading and trailing whitespace removed.                   *)
(***************************************************************************)
Whitespace == {" ", "\t", "\n", "\r"}

RECURSIVE lstrip(_)
lstrip(s) == IF s # <<>> /\ Head(s) \in Whitespace THEN lstrip(Tail(s)) ELSE s

RECURSIVE rstrip(_)
rstrip(s) ==
  IF s # <<>> /\ s[Len(s)] \in Whitespace THEN rstrip(SubSeq(s, 1, Len(s) - 1)) ELSE s

strip(s) == rstrip(lstrip(s))

(***************************************************************************)
(* base64.b64decode (validate=False): characters outside the alphabet are  *)
(* discarded, the remaining data characters are decoded four at a time,    *)
(* a final group of 2 or 3 needs its padding, anything else raises         *)
(* binascii.Error.  Payloads carry their padding at the end.               *)
(***************************************************************************)
B64Alphabet ==
  << "A","B","C","D","E","F","G","H","I","J","K","L","M","N","O","P",
     "Q","R","S","T","U","V","W","X","Y","Z","a","b","c","d","e","f",
     "g","h","i","j","k","l","m","n","o","p","q","r","s","t","u","v",
     "w","x","y","z","0","1","2","3","4","5","6","7","8","9","+","/" >>

B64Chars == {B64Alphabet[k] : k \in DOMAIN B64Alphabet}

B64Value(c) == (CHOOSE k \in DOMAIN B64Alphabet : B64Alphabet[k] = c) - 1

IsB64Char(c) == c \in B64Chars
IsPad(c) == c = "="

RECURSIVE B64Groups(_)
B64Groups(d) ==
  IF Len(d) >= 4 THEN
    LET n == B64Value(d[1]) * 262144 + B64Value(d[2]) * 4096
             + B64Value(d[3]) * 64 + B64Value(d[4])
    IN << n \div 65536, (n \div 256) % 256, n % 256 >> \o B64Groups(SubSeq(d, 5, Len(d)))
  ELSE IF Len(d) = 3 THEN
    LET n == B64Value(d[1]) * 4096 + B64Value(d[2]) * 64 + B64Value(d[3])
    IN << n \div 1024, (n \div 4) % 256 >>
  ELSE IF Len(d) = 2 THEN
    LET n == B64Value(d[1]) * 64 + B64Value(d[2])
    IN << n \div 16 >>
  ELSE << >>

b64decode(s) ==
  LET d == SelectSeq(s, IsB64Char)
      pads == Len(SelectSeq(s, IsPad))
      q == Len(d) % 4
      ok == \/ q = 0
            \/ q = 2 /\ pads >= 2
            \/ q = 3 /\ pads >= 1
  IN [ok |-> ok, bytes |-> IF ok THEN B64Groups(d) ELSE << >>]

(***************************************************************************)
(* The environment.                                                        *)
(*   Responses: what one invoke_model call and the parse of its body give: *)
(*   the call raises; the body does not parse; the body parses and has no  *)
(*   'images' key; 'images' is the empty list; 'images' holds one base64   *)
(*   text.                                                                 *)
(*   Faults: what the filesystem does when the image is saved.             *)
(***************************************************************************)
Payloads == { <<"A","A","=","=">>, <<"A","Q","I","D">>, <<"A">> }

Response(raises, parses, hasImages, images) ==
  [raises |-> raises, parses |-> parses, hasImages |-> hasImages, images |-> images]

Responses ==
  { Response(TRUE, FALSE, FALSE, << >>),
    Response(FALSE, FALSE, FALSE, << >>),
    Response(FALSE, TRUE, FALSE, << >>),
    Response(FALSE, TRUE, TRUE, << >>) }
  \cup { Response(FALSE, TRUE, TRUE, << p >>) : p \in Payloads }

Faults == {"none", "open", "write"}

\* One environment draw per generate_image call.  A filesystem fault and the
\* length a failed write leaves behind are drawn only where the code reaches
\* open(): with a payload that decodes; the payload of more than one byte is
\* the one used there, so that a partial write can be told from an empty one.
FaultPayloads == {q \in Payloads : b64decode(q).ok /\ Len(b64decode(q).bytes) > 1}

Env ==
  { [resp |-> r, fault |-> "none", cut |-> 0] : r \in Responses }
  \cup { [resp |-> Response(FALSE, TRUE, TRUE, << p >>), fault |-> "open", cut |-> 0] :
           p \in FaultPayloads }
  \cup { [resp |-> Response(FALSE, TRUE, TRUE, << p >>), fault |-> "write", cut |-> c] :
           p \in FaultPayloads, c \in 0..MaxCut }

(***************************************************************************)
(* The filesystem under output_dir: a function from the paths that exist   *)
(* to their bytes.                                                         *)
(***************************************************************************)
NoFiles == [p \in {} |-> << >>]
OldBytes == << 7, 7 >>

\* os.path.join(self.output_dir, f"{filename}.png")
OutputPath(filename) == output_dir \o "/" \o filename \o ".png"

\* open(path, 'wb') creates or truncates; f.write(data) then fills it.
Put(fs, path, data) == (path :> data) @@ fs

\* What a write that raises leaves in the file open() has just truncated.
Partial(data, cut) ==
  SubSeq(data, 1, IF cut < Len(data) THEN cut ELSE IF Len(data) = 0 THEN 0 ELSE Len(data) - 1)

(***************************************************************************)
(* generate_image                                                          *)
(***************************************************************************)
RequestBody(prompt, width, height, cfg_scale, seed) ==
  [taskType |-> "TEXT_IMAGE",
   text |-> prompt,
   numberOfImages |-> NumberOfImages,
   quality |-> "premium",
   width |-> width,
   height |-> height,
   cfgScale |-> cfg_scale,
   seed |-> seed]

\* `except Exception as e: ... return None`: nothing propagates to the caller.
CaughtPropagates(fs) == [result |-> None, files |-> fs, raised |-> TRUE]

Caught(fs) == [result |-> None, files |-> fs, raised |-> FALSE]

\* `'images' in response_body and len(response_body['images']) > 0`
HasImage(resp) == resp.hasImages /\ Len(resp.images) > 0

\* `with open(output_path, 'wb') as f: f.write(image_data)`, then return output_path.
SaveImageIgnoresFault(fs, output_path, image_data, fault, cut) ==
  [result |-> output_path, files |-> Put(fs, output_path, image_data), raised |-> FALSE]

SaveImage(fs, output_path, image_data, fault, cut) ==
  IF fault = "open" THEN Caught(fs)
  ELSE IF fault = "write" THEN Caught(Put(fs, output_path, Partial(image_data, cut)))
  ELSE [result |-> output_path, files |-> Put(fs, output_path, image_data), raised |-> FALSE]

\* The else branch: "No image generated", return None.
NoImageSaves(fs, filename) ==
  [result |-> None, files |-> Put(fs, OutputPath(filename), << >>), raised |-> FALSE]

NoImage(fs, filename) == [result |-> None, files |-> fs, raised |-> FALSE]

GenerateImage(prompt, filename, seed, env, fs) ==
  LET request_body == RequestBody(prompt, DefaultWidth, DefaultHeight, DefaultCfgScale, seed)
      resp == env.resp
      r == IF resp.raises THEN Caught(fs)
           ELSE IF ~resp.parses THEN Caught(fs)
           ELSE IF HasImage(resp) THEN
             LET dec == b64decode(resp.images[1])
             IN IF ~dec.ok THEN Caught(fs)
                ELSE SaveImage(fs, OutputPath(filename), dec.bytes, env.fault, env.cut)
           ELSE NoImage(fs, filename)
  IN [result |-> r.result, files |-> r.files, raised |-> r.raised,
      call |-> [body |-> request_body, filename |-> filename]]

(***************************************************************************)
(* State                                                                   *)
(***************************************************************************)
VARIABLES
  pc,                     \* position of main()
  numJobs,                \* length of the prompts table of this run
  dirExists,              \* whether output_dir exists
  files,                  \* the files under output_dir
  dir0, files0,           \* dirExists and files when the program started
  initOutcome,            \* how NovaCanvasImageGenerator() ended
  choice,                 \* the stripped menu input
  inputsRead,             \* number of input() calls that returned
  callLog,                \* the invoke_model calls made, in order
  trace,                  \* the steps taken, in order
  successful_generations,
  failed_generations,
  i,                      \* the loop index of generate_workshop_images
  result,                 \* what the last generate_image returned
  outcomes,               \* per batch job: the environment's draw and the result
  tallies,                \* the counters after each job's tally
  testResult,             \* what generate_single_test_image returned
  batchResult,            \* what generate_workshop_images returned
  out                     \* tags of the messages printed by main and the batch

vars == << pc, numJobs, dirExists, files, dir0, files0, initOutcome, choice, inputsRead,
           callLog, trace, successful_generations, failed_generations, i, result,
           outcomes, tallies, testResult, batchResult, out >>

prompts == SubSeq(AllPrompts, 1, numJobs)

AllPaths == {OutputPath(prompts[k].filename) : k \in 1..numJobs} \cup {OutputPath(test_filename)}

InitOutcomes == {"ok", "client_error", "makedirs_error"}

RawInputs ==
  { <<"1">>, <<"2">>, <<"3">>, <<" ", "2">>, <<"3", " ">>, <<"\t", "1", " ">>,
    << >>, <<" ">>, <<"4">>, <<" ", "x", " ">>, <<"1", "2">>, <<"2", " ", "3">> }

Init ==
  /\ pc = "start"
  /\ numJobs \in 1..MaxJobs
  /\ dir0 \in BOOLEAN
  /\ files0 = IF dir0
               THEN [p \in {OutputPath(AllPrompts[k].filename) : k \in 1..numJobs}
                              \cup {OutputPath(test_filename)} |-> OldBytes]
               ELSE NoFiles
  /\ dirExists = dir0
  /\ files = files0
  /\ initOutcome = "pending"
  /\ choice = << >>
  /\ inputsRead = 0
  /\ callLog = << >>
  /\ trace = << >>
  /\ successful_generations = 0
  /\ failed_generations = 0
  /\ i = 0
  /\ result = None
  /\ outcomes = << >>
  /\ tallies = << >>
  /\ testResult = "none"
  /\ batchResult = << >>
  /\ out = {}

(***************************************************************************)
(* main(): construction of the generator (__init__), lines 200-207.        *)
(* boto3.client raises before makedirs is reached; makedirs may raise;     *)
(* otherwise output_dir exists afterwards (exist_ok=True).                 *)
(***************************************************************************)
AfterInitGoesOn(o) == "menu"

\* `except Exception ... return` in main.
AfterInit(o) == IF o = "ok" THEN "menu" ELSE "aborted"

Construct ==
  /\ pc = "start"
  /\ \E o \in InitOutcomes :
       /\ initOutcome' = o
       /\ dirExists' = IF o = "ok" THEN TRUE ELSE dirExists
       /\ out' = out \cup {IF o = "ok" THEN "init_ok" ELSE "init_failed"}
       /\ pc' = AfterInit(o)
  /\ UNCHANGED << numJobs, files, dir0, files0, choice, inputsRead, callLog, trace,
                  successful_generations, failed_generations, i, result, outcomes,
                  tallies, testResult, batchResult >>

(***************************************************************************)
(* main(): the menu, lines 215-230.                                        *)
(***************************************************************************)
MenuBranchDefaultsToBatch(c) ==
  IF c = <<"1">> THEN "test" ELSE IF c = <<"3">> THEN "test" ELSE "batch_start"

MenuBranch(c) ==
  IF c = <<"1">> THEN "test"
  ELSE IF c = <<"2">> THEN "batch_start"
  ELSE IF c = <<"3">> THEN "test"
  ELSE "done"

ReadChoice ==
  /\ pc = "menu"
  /\ \E raw \in RawInputs :
       /\ choice' = strip(raw)
       /\ pc' = MenuBranch(strip(raw))
       /\ out' = IF MenuBranch(strip(raw)) = "done" THEN out \cup {"invalid_choice"} ELSE out
  /\ inputsRead' = inputsRead + 1
  /\ UNCHANGED << numJobs, dirExists, files, dir0, files0, initOutcome, callLog, trace,
                  successful_generations, failed_generations, i, result, outcomes,
                  tallies, testResult, batchResult >>

(***************************************************************************)
(* generate_single_test_image, and what main does with its result:         *)
(* choice "1" ends; choice "3" goes on to the confirmation only when the   *)
(* test returned True.                                                     *)
(***************************************************************************)
AfterTestAlwaysContinues(c, ok) == IF c = <<"3">> THEN "confirm" ELSE "done"

AfterTest(c, ok) == IF c = <<"3">> /\ ok THEN "confirm" ELSE "done"

GenerateSingleTestImage ==
  /\ pc = "test"
  /\ \E env \in Env :
       LET r == GenerateImage(test_prompt, test_filename, << TestSeed >>, env, files)
       IN /\ callLog' = Append(callLog, r.call)
          /\ trace' = Append(trace, << "test", 0 >>)
          /\ files' = r.files
          /\ result' = r.result
          /\ IF r.raised
             THEN /\ pc' = "crashed"
                  /\ UNCHANGED << testResult, out >>
             ELSE /\ testResult' = IF Truthy(r.result) THEN "passed" ELSE "failed"
                  /\ out' = out \cup {IF Truthy(r.result) THEN "test_ok" ELSE "test_failed"}
                  /\ pc' = AfterTest(choice, Truthy(r.result))
  /\ UNCHANGED << numJobs, dirExists, dir0, files0, initOutcome, choice, inputsRead,
                  successful_generations, failed_generations, i, outcomes, tallies,
                  batchResult >>

\* input("Press Enter to continue with full generation...")
Confirm ==
  /\ pc = "confirm"
  /\ inputsRead' = inputsRead + 1
  /\ trace' = Append(trace, << "confirm", 0 >>)
  /\ pc' = "batch_start"
  /\ UNCHANGED << numJobs, dirExists, files, dir0, files0, initOutcome, choice, callLog,
                  successful_generations, failed_generations, i, result, outcomes,
                  tallies, testResult, batchResult, out >>

(***************************************************************************)
(* generate_workshop_images                                                *)
(***************************************************************************)
\* lines 142-149: the counters start at zero, enumerate(prompts, 1) at 1.
BatchStart ==
  /\ pc = "batch_start"
  /\ successful_generations' = 0
  /\ failed_generations' = 0
  /\ i' = 1
  /\ out' = out \cup {"batch_started"}
  /\ pc' = "job"
  /\ UNCHANGED << numJobs, dirExists, files, dir0, files0, initOutcome, choice, inputsRead,
                  callLog, trace, result, outcomes, tallies, testResult, batchResult >>

\* prompt_data of iteration k of `for i, prompt_data in enumerate(prompts, 1)`.
JobAtReversed(k) == prompts[Len(prompts) + 1 - k]

JobAt(k) == prompts[k]

\* lines 152-156: result = self.generate_image(prompt, filename, seed=42)
GenerateJob ==
  /\ pc = "job"
  /\ \E env \in Env :
       LET r == GenerateImage(JobAt(i).prompt, JobAt(i).filename, << BatchSeed >>, env, files)
       IN /\ callLog' = Append(callLog, r.call)
          /\ trace' = Append(trace, << "call", i >>)
          /\ files' = r.files
          /\ result' = r.result
          /\ outcomes' = Append(outcomes, [resp |-> env.resp, fault |-> env.fault,
                                           result |-> r.result])
          /\ pc' = IF r.raised THEN "crashed" ELSE "tally"
  /\ UNCHANGED << numJobs, dirExists, dir0, files0, initOutcome, choice, inputsRead,
                  successful_generations, failed_generations, i, tallies, testResult,
                  batchResult, out >>

\* lines 158-161
TallyDropsFailures(r, s, f) == IF Truthy(r) THEN << s + 1, f >> ELSE << s, f >>

TallyCountsTwice(r, s, f) == IF Truthy(r) THEN << s + 1, f >> ELSE << s + 1, f + 1 >>

TallyOf(r, s, f) == IF Truthy(r) THEN << s + 1, f >> ELSE << s, f + 1 >>

\* line 164: `if i < len(prompts)`
NeedsDelayAlways(k, n) == k <= n

NeedsDelay(k, n) == k < n

Tally ==
  /\ pc = "tally"
  /\ LET t == TallyOf(result, successful_generations, failed_generations)
     IN /\ successful_generations' = t[1]
        /\ failed_generations' = t[2]
        /\ tallies' = Append(tallies, t)
  /\ trace' = Append(trace, << "tally", i >>)
  /\ IF NeedsDelay(i, Len(prompts))
     THEN /\ pc' = "sleep"
          /\ i' = i
     ELSE IF i < Len(prompts)
     THEN /\ pc' = "job"
          /\ i' = i + 1
     ELSE /\ pc' = "return"
          /\ i' = i
  /\ UNCHANGED << numJobs, dirExists, files, dir0, files0, initOutcome, choice, inputsRead,
                  callLog, result, outcomes, testResult, batchResult, out >>

\* lines 165-166: time.sleep(delay_seconds); then the for loop takes its next
\* item, or ends when the list is exhausted.
Sleep ==
  /\ pc = "sleep"
  /\ trace' = Append(trace, << "sleep", i >>)
  /\ IF i < Len(prompts)
     THEN /\ i' = i + 1
          /\ pc' = "job"
     ELSE /\ i' = i
          /\ pc' = "return"
  /\ UNCHANGED << numJobs, dirExists, files, dir0, files0, initOutcome, choice, inputsRead,
                  callLog, successful_generations, failed_generations, result, outcomes,
                  tallies, testResult, batchResult, out >>

\* lines 168-174: the summary and `return successful_generations, failed_generations`.
Return ==
  /\ pc = "return"
  /\ batchResult' = << successful_generations, failed_generations >>
  /\ out' = out \cup {"complete"}
  /\ pc' = "done"
  /\ UNCHANGED << numJobs, dirExists, files, dir0, files0, initOutcome, choice, inputsRead,
                  callLog, trace, successful_generations, failed_generations, i, result,
                  outcomes, tallies, testResult >>

Next ==
  \/ Construct
  \/ ReadChoice
  \/ GenerateSingleTestImage
  \/ Confirm
  \/ BatchStart
  \/ GenerateJob
  \/ Tally
  \/ Sleep
  \/ Return

Spec == Init /\ [][Next]_vars

(***************************************************************************)
(* Definitions shared by the properties.                                   *)
(***************************************************************************)
IsBatchEvent(e) == e[1] \in {"call", "tally", "sleep"}
IsCallEvent(e) == e[1] = "call"
IsTallyEvent(e) == e[1] = "tally"
IsSleepEvent(e) == e[1] = "sleep"

\* The steps of generate_workshop_images, in the order they were taken.
BatchTrace == SelectSeq(trace, IsBatchEvent)

\* Number of invoke_model calls made by generate_single_test_image.
TestCalls == IF trace # << >> /\ trace[1][1] = "test" THEN 1 ELSE 0

NumBatchCalls == Len(callLog) - TestCalls
BatchCall(n) == callLog[TestCalls + n]

BatchReturned == batchResult # << >>

\* What job k's tally added to (successful_generations, failed_generations).
TallyDelta(k) ==
  IF k = 1 THEN tallies[1]
  ELSE << tallies[k][1] - tallies[k - 1][1], tallies[k][2] - tallies[k - 1][2] >>

JobPath(k) == OutputPath(AllPrompts[k].filename)

\* The file at path is as it was when the program started.
Untouched(path) ==
  /\ (path \in DOMAIN files) = (path \in DOMAIN files0)
  /\ path \in DOMAIN files => files[path] = files0[path]

RespRaises(o) == o.resp.raises
RespEmpty(o) == ~o.resp.raises /\ o.resp.parses /\ o.resp.hasImages /\ o.resp.images = << >>
PersistenceFailed(o) == o.fault \in {"open", "write"}

ValidChoices == { <<"1">>, <<"2">>, <<"3">> }

\* C1: in every batch succeeded + failed equals the number of jobs tallied so
\* far (k after the k-th tally), and the returned pair sums to the number of
\* jobs, whatever the per-job outcomes were.
C1_TallySum ==
  /\ \A k \in 1..Len(tallies) : tallies[k][1] + tallies[k][2] = k
  /\ pc \in {"job", "tally", "sleep", "return"} =>
       successful_generations + failed_generations = Len(SelectSeq(trace, IsTallyEvent))
  /\ BatchReturned => batchResult[1] + batchResult[2] = Len(prompts)

C1_Witness ==
  /\ BatchReturned
  /\ numJobs = 3
  /\ RespRaises(outcomes[1])
  /\ RespEmpty(outcomes[2])
  /\ outcomes[3].result # None
  /\ batchResult = << 1, 2 >>

\* C2: a failing job never ends the batch early: the batch never stops on an
\* error, a step is always possible until main has ended, at completion every
\* job has had exactly one remote call, and when every call raised the result
\* is (0, N) with N calls.
C2_NoEarlyTermination ==
  /\ pc # "crashed"
  /\ pc \notin {"done", "aborted"} => ENABLED Next
  /\ (pc = "return" \/ BatchReturned) =>
       /\ NumBatchCalls = Len(prompts)
       /\ Len(outcomes) = Len(prompts)
       /\ \A k \in 1..Len(prompts) :
            Cardinality({p \in 1..Len(trace) : trace[p] = << "call", k >>}) = 1
  /\ (BatchReturned /\ \A k \in 1..Len(outcomes) : RespRaises(outcomes[k])) =>
       batchResult = << 0, Len(prompts) >>

C2_Witness ==
  /\ BatchReturned
  /\ numJobs = 3
  /\ \A k \in 1..3 : RespRaises(outcomes[k])
  /\ NumBatchCalls = 3
  /\ batchResult = << 0, 3 >>

\* C3: generate_image writes a file if and only if it returns a path: after a
\* call that returned None the file at its output path is as it was before the
\* run, and after a call that returned a path the file holds the decoded bytes.
C3_WritesIffSuccess ==
  /\ \A k \in 1..Len(outcomes) :
       IF outcomes[k].result = None
       THEN Untouched(JobPath(k))
       ELSE /\ outcomes[k].result = JobPath(k)
            /\ JobPath(k) \in DOMAIN files
            /\ files[JobPath(k)] = b64decode(outcomes[k].resp.images[1]).bytes
  /\ testResult = "failed" => Untouched(OutputPath(test_filename))

\* C4: jobs are processed in list order with no skips, repeats or overlap: the
\* n-th remote call of the batch carries the n-th configured prompt and is made
\* for the n-th configured filename, the n-th call is the call of job n, and a
\* job's call is made only after every earlier job has been tallied.
C4_OrderPreserved ==
  /\ \A n \in 1..NumBatchCalls :
       /\ BatchCall(n).body.text = AllPrompts[n].prompt
       /\ BatchCall(n).filename = AllPrompts[n].filename
  /\ LET calls == SelectSeq(trace, IsCallEvent)
         done == SelectSeq(trace, IsTallyEvent)
     IN /\ \A n \in 1..Len(calls) : calls[n] = << "call", n >>
        /\ \A n \in 1..Len(done) : done[n] = << "tally", n >>
        /\ Len(calls) - Len(done) \in {0, 1}
        /\ Len(calls) = NumBatchCalls
  /\ LET bt == BatchTrace
     IN \A p \in 1..Len(bt) :
          (bt[p][1] = "call" /\ bt[p][2] > 1) =>
            \E q \in 1..(p - 1) : bt[q] = << "tally", bt[p][2] - 1 >>

C4_Witness ==
  /\ BatchReturned
  /\ numJobs = 3
  /\ TestCalls = 1
  /\ outcomes[1].result = None
  /\ BatchCall(3).filename = "03_checkered_buttonup"

\* C5: the pacing delay happens exactly once after each job but the last,
\* directly after that job's tally and directly before the next job's call,
\* whether the job succeeded or failed; an N-job batch makes N-1 delays.
C5_Pacing ==
  LET bt == BatchTrace
      n == Len(prompts)
  IN /\ \A p \in 1..Len(bt) :
          bt[p][1] = "sleep" =>
            /\ p > 1
            /\ bt[p - 1] = << "tally", bt[p][2] >>
            /\ bt[p][2] < n
            /\ p < Len(bt) => bt[p + 1] = << "call", bt[p][2] + 1 >>
     /\ \A p \in 1..Len(bt) :
          (bt[p][1] = "tally" /\ bt[p][2] < n /\ p < Len(bt)) =>
            bt[p + 1] = << "sleep", bt[p][2] >>
     /\ \A k \in 1..n :
          Cardinality({p \in 1..Len(bt) : bt[p] = << "sleep", k >>}) <= 1
     /\ (pc = "return" \/ BatchReturned) =>
          Len(SelectSeq(trace, IsSleepEvent)) = n - 1

C5_Witness ==
  /\ BatchReturned
  /\ numJobs = 3
  /\ outcomes[1].result = None
  /\ outcomes[2].result # None
  /\ Len(SelectSeq(trace, IsSleepEvent)) = 2

\* C6: a persistence failure (open or write raises) in job k is a failure of
\* that job only: generate_image returns None without raising, the job's tally
\* adds one to failed and nothing to succeeded, and the batch still attempts
\* every job.
C6_PersistenceFailureIsPerJob ==
  /\ pc # "crashed"
  /\ \A k \in 1..Len(outcomes) :
       PersistenceFailed(outcomes[k]) =>
         /\ outcomes[k].result = None
         /\ k <= Len(tallies) => TallyDelta(k) = << 0, 1 >>
         /\ pc = "job" => i > k
  /\ BatchReturned => Len(outcomes) = Len(prompts)

C6_Witness ==
  /\ BatchReturned
  /\ numJobs = 3
  /\ outcomes[1].fault = "write"
  /\ outcomes[2].fault = "open"
  /\ outcomes[3].result # None
  /\ batchResult = << 1, 2 >>

\* C7: when constructing the generator fails main aborts before anything else
\* happens: no remote call, no file written, no input read; and nothing else
\* halts the program: main aborts only on that failure and no error of a job
\* propagates out of generate_image.
C7_InitFailureAborts ==
  /\ initOutcome \in {"client_error", "makedirs_error"} =>
       /\ pc = "aborted"
       /\ callLog = << >>
       /\ trace = << >>
       /\ files = files0
       /\ dirExists = dir0
       /\ inputsRead = 0
  /\ pc = "aborted" => initOutcome \in {"client_error", "makedirs_error"}
  /\ pc # "crashed"

C7_Witness ==
  /\ pc = "aborted"
  /\ initOutcome = "makedirs_error"
  /\ files0 # NoFiles

\* C8: the tally follows the outcomes job by job: each job adds exactly one to
\* exactly one counter, succeeded for a returned path and failed otherwise, so
\* the returned pair counts the jobs of each kind; a response with an empty
\* image list is counted as a failure and leaves no file written.
C8_TallyMatchesOutcomes ==
  /\ \A k \in 1..Len(tallies) :
       TallyDelta(k) = IF outcomes[k].result # None THEN << 1, 0 >> ELSE << 0, 1 >>
  /\ BatchReturned =>
       /\ batchResult[1] = Cardinality({k \in 1..Len(outcomes) : outcomes[k].result # None})
       /\ batchResult[2] = Cardinality({k \in 1..Len(outcomes) : outcomes[k].result = None})
  /\ \A k \in 1..Len(outcomes) :
       RespEmpty(outcomes[k]) =>
         /\ outcomes[k].result = None
         /\ Untouched(JobPath(k))
         /\ k <= Len(tallies) => TallyDelta(k) = << 0, 1 >>

C8_Witness ==
  /\ BatchReturned
  /\ numJobs = 2
  /\ files0 = NoFiles
  /\ outcomes[1].resp.images = << <<"A","A","=","=">> >>
  /\ outcomes[1].result = JobPath(1)
  /\ RespEmpty(outcomes[2])
  /\ files[JobPath(1)] = << 0 >>
  /\ JobPath(2) \notin DOMAIN files
  /\ batchResult = << 1, 1 >>

\* The menu input, once read, is none of "1", "2", "3" after stripping.
InvalidChosen == inputsRead > 0 /\ choice \notin ValidChoices

\* C9 as stated: on an invalid menu input main prints an error and ends with
\* no remote call made, no image file written and no other filesystem state
\* changed by the run.
C9_InvalidChoiceChangesNothing ==
  InvalidChosen =>
    /\ pc = "done"
    /\ "invalid_choice" \in out
    /\ callLog = << >>
    /\ files = files0
    /\ dirExists = dir0

\* C9 amended: on an invalid menu input main prints an error and ends with no
\* remote call made and no image file written; the one change the run has made
\* is the constructor's: the output directory exists, created if it was absent.
C9_InvalidChoiceNoGeneration ==
  InvalidChosen =>
    /\ pc = "done"
    /\ "invalid_choice" \in out
    /\ callLog = << >>
    /\ trace = << >>
    /\ files = files0
    /\ dirExists
    /\ inputsRead = 1

C9_Witness ==
  /\ InvalidChosen
  /\ pc = "done"
  /\ choice = << "x" >>
  /\ ~dir0
  /\ dirExists

\* C10: in menu mode 3 the batch is gated on the test: a batch call is made
\* only after the test returned success and the confirmation was read, and
\* when the test fails no batch job is attempted and the program ends having
\* made exactly one remote call.
C10_Mode3Gated ==
  /\ (choice = <<"3">> /\ BatchTrace # << >>) =>
       /\ Len(trace) >= 3
       /\ trace[1] = << "test", 0 >>
       /\ trace[2] = << "confirm", 0 >>
       /\ testResult = "passed"
       /\ inputsRead = 2
  /\ (choice = <<"3">> /\ pc \in {"batch_start", "job"}) => testResult = "passed"
  /\ (choice = <<"3">> /\ testResult = "failed") =>
       /\ pc = "done"
       /\ Len(callLog) = 1
       /\ outcomes = << >>
       /\ ~BatchReturned
       /\ "batch_started" \notin out

C10_Witness ==
  /\ choice = <<"3">>
  /\ testResult = "failed"
  /\ pc = "done"
  /\ result = None
  /\ "test_failed" \in out
  /\ Len(callLog) = 1
  /\ callLog[1].body.seed = << TestSeed >>

====
